---- MODULE Spec2Model ----
(***************************************************************************)
(* Model of chain/fund_transaction.js: the async.auto task graph that      *)
(* validates a request, resolves the fee rate, derives outputs, selects    *)
(* coins, funds a PSBT, unlocks the inputs on a dry run and signs.         *)
(*                                                                         *)
(* One behaviour is one invocation of the exported function.  An action is *)
(* one turn of the event loop: the invocation itself, or the response of   *)
(* one external call, followed by everything async.auto runs synchronously *)
(* as a consequence.                                                       *)
(***************************************************************************)
EXTENDS Integers, Sequences, FiniteSets, TLC

\* Bounds of the model
MaxOutputs == 2
MaxUtxos == 1
MaxCoins == 2
MaxInputs == 2

\* Program constants
dustValue == 293
minConfs == 1
HashLen == 64
BigUnit == 100000000
BigUnitDigits == 8
MaxVoutDigits == 6

(***************************************************************************)
(* JavaScript values.  A string is a sequence of one-character strings.    *)
(***************************************************************************)
Str(s) == [t |-> "string", s |-> s, n |-> 0]
Num(n) == [t |-> "number", s |-> <<>>, n |-> n]
Undefined == [t |-> "undefined", s |-> <<>>, n |-> 0]

Truthy(v) ==
  CASE v.t = "string" -> Len(v.s) > 0
    [] v.t = "number" -> v.n # 0
    [] OTHER -> FALSE

Digits == <<"0", "1", "2", "3", "4", "5", "6", "7", "8", "9">>
HexChars == {"0", "1", "2", "3", "4", "5", "6", "7", "8", "9",
             "a", "b", "c", "d", "e", "f", "A", "B", "C", "D", "E", "F"}

IsDigit(c) == \E d \in 1..10 : Digits[d] = c
DigitVal(c) == (CHOOSE d \in 1..10 : Digits[d] = c) - 1

\* String(n) for a non-negative integer
RECURSIVE Decimal(_)
Decimal(n) ==
  IF n < 10 THEN <<Digits[n + 1]>>
  ELSE Decimal(n \div 10) \o <<Digits[(n % 10) + 1]>>

\* String(v) as RegExp.prototype.test coerces its argument
ToStr(v) ==
  CASE v.t = "string" -> v.s
    [] v.t = "number" -> Decimal(v.n)
    [] OTHER -> <<"u", "n", "d", "e", "f", "i", "n", "e", "d">>

\* Number(s) of a string of decimal digits; Number('') is 0; NaN otherwise
NaN == -1
RECURSIVE DigitsValue(_)
DigitsValue(s) ==
  IF s = <<>> THEN 0
  ELSE 10 * DigitsValue(SubSeq(s, 1, Len(s) - 1)) + DigitVal(s[Len(s)])
Number(s) ==
  IF \A i \in 1..Len(s) : IsDigit(s[i]) THEN DigitsValue(s) ELSE NaN

\* String.prototype.slice(from) and slice(0, to), zero based
SliceTo(s, to) == SubSeq(s, 1, IF to < Len(s) THEN to ELSE Len(s))
SliceFrom(s, from) == SubSeq(s, from + 1, Len(s))

RECURSIVE sumOf(_)
sumOf(arr) == IF arr = <<>> THEN 0 ELSE arr[1] + sumOf(Tail(arr))

\* (n / 1e8).toFixed(8)
RECURSIVE PadLeft(_, _)
PadLeft(s, width) == IF Len(s) >= width THEN s ELSE PadLeft(<<"0">> \o s, width)
asBigUnit(n) ==
  LET abs == IF n < 0 THEN 0 - n ELSE n
  IN (IF n < 0 THEN <<"-">> ELSE <<>>)
       \o Decimal(abs \div BigUnit) \o <<".">>
       \o PadLeft(Decimal(abs % BigUnit), BigUnitDigits)

asOutpoint(utxo) ==
  utxo.transaction_id \o <<":">> \o Decimal(utxo.transaction_vout)
asInput(n) == [transaction_id |-> n.id, transaction_vout |-> n.vout]
asUtxo_sliceAtColon(n) ==
  [id |-> SliceTo(n, HashLen), vout |-> Number(SliceFrom(n, HashLen))]
asUtxo(n) == [id |-> SliceTo(n, HashLen), vout |-> Number(SliceFrom(n, HashLen + 1))]

isOutpoint(v) ==
  /\ Truthy(v)
  /\ LET s == ToStr(v)
     IN /\ Len(s) >= HashLen + 2
        /\ Len(s) <= HashLen + 1 + MaxVoutDigits
        /\ \A i \in 1..HashLen : s[i] \in HexChars
        /\ s[HashLen + 1] = ":"
        /\ \A i \in (HashLen + 2)..Len(s) : IsDigit(s[i])

isPublicKey(v) ==
  /\ Truthy(v)
  /\ LET s == ToStr(v)
     IN /\ Len(s) = HashLen + 2
        /\ s[1] = "0"
        /\ s[2] \in {"2", "3"}
        /\ \A i \in 3..(HashLen + 2) : s[i] \in HexChars


(***************************************************************************)
(* The inputs of an invocation and the answers of the external services.   *)
(***************************************************************************)
Rep(c, n) == [i \in 1..n |-> c]
HashA == Rep("a", HashLen)
HashB == [i \in 1..HashLen |-> IF i % 2 = 1 THEN "A" ELSE "9"]

SeqsUpTo(S, n) == UNION {[1..k -> S] : k \in 0..n}

Arr(items) == [isArray |-> TRUE, items |-> items]
NotArray == [isArray |-> FALSE, items |-> <<>>]

AddressValues == {Str(<<"b", "c", "1", "q">>), Str(<<"0", "2">> \o HashA)}
AmountStrings == {"x", "0.00000292", "0.00000293"}
UtxoValues ==
  {Str(HashA \o <<":", "0">>), Str(HashB \o <<":", "0", "1", "2">>),
   Str(<<>>), Str(HashA \o <<":">>), Num(0)}
FeeArgs == {Undefined, Num(0), Num(7)}

\* Requests with every field of the documented shape
WellShaped(maxOutputs, maxUtxos) ==
  [lnd : {TRUE},
   addresses : {Arr(s) : s \in SeqsUpTo(AddressValues, maxOutputs)},
   amounts : {Arr(s) : s \in SeqsUpTo(AmountStrings, maxOutputs)},
   ask : {TRUE},
   utxos : {Arr(s) : s \in SeqsUpTo(UtxoValues, maxUtxos)},
   is_selecting_utxos : BOOLEAN,
   is_dry_run : BOOLEAN,
   fee_tokens_per_vbyte : FeeArgs]

\* Requests with one field missing or not an array
Misshaped ==
  UNION {{[r EXCEPT !.lnd = FALSE], [r EXCEPT !.ask = FALSE],
          [r EXCEPT !.addresses = NotArray], [r EXCEPT !.amounts = NotArray],
          [r EXCEPT !.utxos = NotArray]} : r \in WellShaped(1, 0)}

Requests == WellShaped(MaxOutputs, MaxUtxos) \cup Misshaped

\* The confirmed coins of the wallet behind lnd
Wallet ==
  <<[transaction_id |-> HashA, transaction_vout |-> 0, tokens |-> 293],
    [transaction_id |-> HashB, transaction_vout |-> 12, tokens |-> 150000300],
    [transaction_id |-> HashA, transaction_vout |-> 1, tokens |-> 292]>>

RECURSIVE Pick(_, _, _)
Pick(w, I, i) ==
  IF i > Len(w) THEN <<>>
  ELSE (IF i \in I THEN <<w[i]>> ELSE <<>>) \o Pick(w, I, i + 1)
SubSeqs(w, lo, hi) ==
  {Pick(w, I, 1) : I \in {J \in SUBSET (1..Len(w)) : Cardinality(J) \in lo..hi}}

FeeRates == {3}
SignedTxs == {"0200aa", "0200bb"}

Err(code, msg) == [code |-> code, msg |-> msg]
NoErr == Err(0, "")

\* parseAmount of ./../display: tokens of an amount string, or a thrown message
parseAmount(amount) ==
  CASE amount = "0.00000292" -> [ok |-> TRUE, tokens |-> 292, message |-> ""]
    [] amount = "0.00000293" -> [ok |-> TRUE, tokens |-> 293, message |-> ""]
    [] OTHER -> [ok |-> FALSE, tokens |-> 0, message |-> "FailedToParseAmount"]

(***************************************************************************)
(* validate: the first failing check, or NoErr                             *)
(***************************************************************************)
\* Array.prototype.find: the first element satisfying the test, or undefined
RECURSIVE FindNotOutpoint(_)
FindNotOutpoint(items) ==
  IF items = <<>> THEN Undefined
  ELSE IF ~isOutpoint(items[1]) THEN items[1]
  ELSE FindNotOutpoint(Tail(items))

RECURSIVE FindPublicKey(_)
FindPublicKey(items) ==
  IF items = <<>> THEN Undefined
  ELSE IF isPublicKey(items[1]) THEN items[1]
  ELSE FindPublicKey(Tail(items))

LengthsDiffer_unchecked(a) == FALSE
LengthsDiffer(a) == Len(a.addresses.items) # Len(a.amounts.items)

BothUtxoSources_unchecked(a) == FALSE
BothUtxoSources(a) == Len(a.utxos.items) # 0 /\ a.is_selecting_utxos

ValidateError(a) ==
  IF ~a.lnd THEN Err(400, "ExpectedAuthenticatedLndToFundTransaction")
  ELSE IF ~a.amounts.isArray THEN Err(400, "ExpectedAddressesToFundTransaction")
  ELSE IF ~a.addresses.isArray THEN Err(400, "ExpectedAddressesToFundTransaction")
  ELSE IF Len(a.addresses.items) = 0
    THEN Err(400, "ExpectedAddressToSendFundsToInTransaction")
  ELSE IF LengthsDiffer(a)
    THEN Err(400, "ExpectedAmountOfFundsToSendToAddress")
  ELSE IF Truthy(FindPublicKey(a.addresses.items))
    THEN Err(400, "ExpectedFundPayingToAddressesNotPublicKeys")
  ELSE IF ~a.ask THEN Err(400, "ExpectedAskFunctionToFundTransaction")
  ELSE IF ~a.utxos.isArray
    THEN Err(400, "ExpectedArrayOfUtxosToSpendToFundTransaction")
  ELSE IF Truthy(FindNotOutpoint(a.utxos.items))
    THEN Err(400, "ExpectedOutpointFormattedUtxoToFundTransaction")
  ELSE IF BothUtxoSources(a)
    THEN Err(400, "ExpectedEitherSelectUtxosOrExplicitUtxosNotBoth")
  ELSE NoErr


(***************************************************************************)
(* The async.auto task graph                                               *)
(***************************************************************************)
Tasks ==
  <<"validate", "getFee", "outputs", "getUtxos", "utxos", "fund", "unlock",
    "sign", "funded">>

Deps_fundWithoutFee(key) ==
  CASE key = "validate" -> <<>>
    [] key = "getFee" -> <<"validate">>
    [] key = "outputs" -> <<"validate">>
    [] key = "getUtxos" -> <<"validate">>
    [] key = "utxos" -> <<"getUtxos", "outputs">>
    [] key = "fund" -> <<"outputs", "utxos">>
    [] key = "unlock" -> <<"fund">>
    [] key = "sign" -> <<"fund">>
    [] key = "funded" -> <<"sign">>

Deps_signAfterUnlock(key) ==
  CASE key = "validate" -> <<>>
    [] key = "getFee" -> <<"validate">>
    [] key = "outputs" -> <<"validate">>
    [] key = "getUtxos" -> <<"validate">>
    [] key = "utxos" -> <<"getUtxos", "outputs">>
    [] key = "fund" -> <<"getFee", "outputs", "utxos">>
    [] key = "unlock" -> <<"fund">>
    [] key = "sign" -> <<"fund", "unlock">>
    [] key = "funded" -> <<"sign">>

Deps(key) ==
  CASE key = "validate" -> <<>>
    [] key = "getFee" -> <<"validate">>
    [] key = "outputs" -> <<"validate">>
    [] key = "getUtxos" -> <<"validate">>
    [] key = "utxos" -> <<"getUtxos", "outputs">>
    [] key = "fund" -> <<"getFee", "outputs", "utxos">>
    [] key = "unlock" -> <<"fund">>
    [] key = "sign" -> <<"fund">>
    [] key = "funded" -> <<"sign">>

InSeq(x, s) == \E i \in 1..Len(s) : s[i] = x

\* The listeners of a task: the tasks that name it as a dependency, in key order
ListenersOf(dep) == SelectSeq(Tasks, LAMBDA key : InSeq(dep, Deps(key)))

VARIABLES
  args,          \* the request
  invoked,       \* the exported function has been called
  done,          \* keys of the results object of async.auto
  results,       \* the results object of async.auto
  runningTasks,  \* async.auto: tasks started and not called back
  hasError,      \* async.auto: a task has failed
  remaining,     \* async.auto: remainingDependencies of each task
  listeners,     \* async.auto: the listeners of each task
  readyTasks,    \* async.auto: queue of the tasks ready to run
  outcome,       \* what returnResult delivered to the caller
  calls,         \* the calls issued to the external capabilities
  pending,       \* the external calls that have not answered yet
  prompt,        \* the selection prompt of args.ask
  each,          \* asyncEach over fund.inputs in unlock
  locks,         \* the outpoints lnd holds locked for this invocation
  thrown         \* a task has thrown: the exception left async.auto uncaught

vars ==
  <<args, invoked, done, results, runningTasks, hasError, remaining,
    listeners, readyTasks, outcome, calls, pending, prompt, each, locks,
    thrown>>

NoVerdict == [accept |-> FALSE, msg |-> <<>>]

\* The mutable state as one record, for the synchronous steps to thread through
Cur ==
  [done |-> done, results |-> results, runningTasks |-> runningTasks,
   hasError |-> hasError, remaining |-> remaining, listeners |-> listeners,
   readyTasks |-> readyTasks, outcome |-> outcome, calls |-> calls,
   pending |-> pending, prompt |-> prompt, each |-> each, locks |-> locks,
   thrown |-> thrown]

Apply(st) ==
  /\ done' = st.done
  /\ results' = st.results
  /\ runningTasks' = st.runningTasks
  /\ hasError' = st.hasError
  /\ remaining' = st.remaining
  /\ listeners' = st.listeners
  /\ readyTasks' = st.readyTasks
  /\ outcome' = st.outcome
  /\ calls' = st.calls
  /\ pending' = st.pending
  /\ prompt' = st.prompt
  /\ each' = st.each
  /\ locks' = st.locks
  /\ thrown' = st.thrown

\* returnResult({reject, resolve, of: 'funded'}) behind once(callback)
ReturnError_always(st, err) ==
  [st EXCEPT !.outcome = [state |-> "rejected", err |-> err, value |-> ""]]
ReturnError(st, err) ==
  IF st.outcome.state # "none" THEN st
  ELSE [st EXCEPT !.outcome = [state |-> "rejected", err |-> err, value |-> ""]]

ReturnResult(st) ==
  IF st.outcome.state # "none" THEN st
  ELSE [st EXCEPT !.outcome =
          [state |-> "resolved", err |-> NoErr, value |-> st.results.funded]]

\* taskComplete: run the listeners of the task, in order
RECURSIVE Notify(_, _)
Notify(ls, st) ==
  IF ls = <<>> THEN st
  ELSE LET key == ls[1]
           left == st.remaining[key] - 1
           s1 == [st EXCEPT !.remaining[key] = left]
           s2 == IF left = 0 THEN [s1 EXCEPT !.readyTasks = Append(@, key)] ELSE s1
       IN Notify(Tail(ls), s2)

RECURSIVE ProcessQueue(_)

\* taskCallback(err)
TaskFail(key, err, st) ==
  ReturnError(
    [st EXCEPT !.runningTasks = @ - 1,
               !.hasError = TRUE,
               !.listeners = [k \in DOMAIN @ |-> <<>>]],
    err)

\* taskCallback(null, result): the caller has stored the result
TaskOk(key, st) ==
  ProcessQueue(
    Notify(st.listeners[key],
           [st EXCEPT !.runningTasks = @ - 1, !.done = @ \cup {key}]))


Issue(st, call) == [st EXCEPT !.pending = @ \cup {call}]

(***************************************************************************)
(* The tasks.  Each takes the state with runningTasks already incremented. *)
(***************************************************************************)
validate(st) ==
  IF ValidateError(args) # NoErr
    THEN TaskFail("validate", ValidateError(args), st)
    ELSE TaskOk("validate", st)

getFee(st) == Issue([st EXCEPT !.calls.fee = @ + 1], "getFee")

\* args.amounts[i], undefined beyond the end of the array
AmountAt(amounts, i) == IF i <= Len(amounts) THEN amounts[i] ELSE "undefined"

\* The index of the first address whose amount parseAmount throws on, or 0
FirstBadAmount(addresses, amounts) ==
  IF \E i \in 1..Len(addresses) : ~parseAmount(AmountAt(amounts, i)).ok
    THEN CHOOSE i \in 1..Len(addresses) :
           /\ ~parseAmount(AmountAt(amounts, i)).ok
           /\ \A j \in 1..(i - 1) : parseAmount(AmountAt(amounts, j)).ok
    ELSE 0

\* catch (err): cbk([400, err.message])
ParseFailure_rethrown(message) == Err(500, message)
ParseFailure(message) == Err(400, message)

outputs(st) ==
  LET addresses == args.addresses.items
      amounts == args.amounts.items
      bad == FirstBadAmount(addresses, amounts)
  IN IF bad # 0
       THEN TaskFail("outputs",
                     ParseFailure(parseAmount(AmountAt(amounts, bad)).message),
                     [st EXCEPT !.calls.parse = @ + bad])
       ELSE TaskOk("outputs",
              [st EXCEPT !.calls.parse = @ + Len(addresses),
                         !.results.outputs =
                           [i \in 1..Len(addresses) |->
                             [address |-> addresses[i],
                              tokens |-> parseAmount(AmountAt(amounts, i)).tokens]]])

getUtxos_always(st) ==
  Issue([st EXCEPT !.calls.enumerate = Append(@, minConfs)], "getUtxos")
getUtxos(st) ==
  IF ~args.is_selecting_utxos THEN TaskOk("getUtxos", st)
  ELSE Issue([st EXCEPT !.calls.enumerate = Append(@, minConfs)], "getUtxos")

\* The choices of the prompt: the outpoint of every enumerated coin
Choices(coins) == [i \in 1..Len(coins) |-> asOutpoint(coins[i])]

Insufficient_orEqual(tokens, total) == tokens <= total
Insufficient(tokens, total) == tokens < total

\* The validate function given to args.ask: true, false, or a message
PromptValidate(input, coins, amounts) ==
  IF Len(input) = 0 THEN [accept |-> FALSE, msg |-> <<>>]
  ELSE
    LET tokens ==
          sumOf([i \in 1..Len(input) |->
            coins[CHOOSE k \in 1..Len(coins) :
                    /\ asOutpoint(coins[k]) = input[i]
                    /\ \A j \in 1..(k - 1) : asOutpoint(coins[j]) # input[i]
                 ].tokens])
        missingTok == asBigUnit(sumOf(amounts) - tokens)
    IN IF Insufficient(tokens, sumOf(amounts))
         THEN [accept |-> FALSE,
               msg |-> <<"Selected ">> \o asBigUnit(tokens) \o <<", need ">>
                         \o missingTok \o <<" more">>]
         ELSE [accept |-> TRUE, msg |-> <<>>]

WalletEmpty_unchecked(coins) == FALSE
WalletEmpty(coins) == Len(coins) = 0

utxos(st) ==
  IF Len(args.utxos.items) # 0
    THEN TaskOk("utxos", [st EXCEPT !.results.utxos = args.utxos.items])
  ELSE IF ~args.is_selecting_utxos
    THEN TaskOk("utxos", [st EXCEPT !.results.utxos = <<>>])
  ELSE IF WalletEmpty(st.results.getUtxos)
    THEN TaskFail("utxos", Err(400, "WalletHasZeroConfirmedUtxos"), st)
  ELSE Issue([st EXCEPT !.calls.ask = @ + 1,
                        !.prompt = [open |-> TRUE, input |-> <<>>,
                                    validated |-> FALSE, verdict |-> NoVerdict]],
             "ask")

\* fee_tokens_per_vbyte || getFee.tokens_per_vbyte
FeeOf_estimateOnly(a, estimate) == estimate
FeeOf(a, estimate) ==
  IF Truthy(a.fee_tokens_per_vbyte) THEN a.fee_tokens_per_vbyte.n ELSE estimate

HasDust_firstOnly(outs) == Len(outs) > 0 /\ outs[1].tokens < dustValue
HasDust_unchecked(outs) == FALSE
HasDust(outs) == \E i \in 1..Len(outs) : outs[i].tokens < dustValue

\* !!inputs.length ? inputs : undefined
InputsGiven_always(inputs) == TRUE
InputsGiven(inputs) == Len(inputs) # 0

\* n.slice is not a function: asUtxo throws a TypeError on a non-string
SliceThrows(coins) == \E i \in 1..Len(coins) : coins[i].t # "string"

fund(st) ==
  LET inputs == [i \in 1..Len(st.results.utxos) |->
                  asInput(asUtxo(st.results.utxos[i].s))]
      fee == FeeOf(args, st.results.getFee)
  IN IF SliceThrows(st.results.utxos)
       THEN [st EXCEPT !.thrown = TRUE]
     ELSE IF HasDust(st.results.outputs)
       THEN TaskFail("fund", Err(400, "ExpectedNonDustAmountValueForFundingAmount"), st)
       ELSE Issue([st EXCEPT !.calls.fund =
                      Append(@, [outputs |-> st.results.outputs,
                                 hasInputs |-> InputsGiven(inputs),
                                 inputs |-> inputs,
                                 fee_tokens_per_vbyte |-> fee])],
                  "fund")

KeepsLocked_inverted(a) == a.is_dry_run
KeepsLocked(a) == ~a.is_dry_run

unlock_skipped(st) == TaskOk("unlock", st)
\* asyncEach issues the iteratee for every input before any of them answers
unlock_firstOnly(st) ==
  LET ins == st.results.fund.inputs
  IN IF KeepsLocked(args) THEN TaskOk("unlock", st)
     ELSE IF Len(ins) = 0 THEN TaskOk("unlock", st)
     ELSE [st EXCEPT
             !.calls.unlock =
               @ \o <<[id |-> ins[1].lock_id,
                       transaction_id |-> ins[1].transaction_id,
                       transaction_vout |-> ins[1].transaction_vout]>>,
             !.each = [length |-> 1, completed |-> 0,
                       pending |-> {1}, called |-> FALSE]]

unlock(st) ==
  LET ins == st.results.fund.inputs
  IN IF KeepsLocked(args) THEN TaskOk("unlock", st)
     ELSE IF Len(ins) = 0 THEN TaskOk("unlock", st)
     ELSE [st EXCEPT
             !.calls.unlock =
               @ \o [i \in 1..Len(ins) |->
                      [id |-> ins[i].lock_id,
                       transaction_id |-> ins[i].transaction_id,
                       transaction_vout |-> ins[i].transaction_vout]],
             !.each = [length |-> Len(ins), completed |-> 0,
                       pending |-> 1..Len(ins), called |-> FALSE]]

sign(st) ==
  Issue([st EXCEPT !.calls.sign = Append(@, st.results.fund.psbt)], "sign")

funded_unsigned(st) ==
  TaskOk("funded", [st EXCEPT !.results.funded = st.results.fund.psbt])
funded(st) ==
  TaskOk("funded", [st EXCEPT !.results.funded = st.results.sign])

\* runTask
RunTask_afterError(key, st) ==
  LET s1 == [st EXCEPT !.runningTasks = @ + 1]
  IN CASE key = "validate" -> validate(s1)
       [] key = "getFee" -> getFee(s1)
       [] key = "outputs" -> outputs(s1)
       [] key = "getUtxos" -> getUtxos(s1)
       [] key = "utxos" -> utxos(s1)
       [] key = "fund" -> fund(s1)
       [] key = "unlock" -> unlock(s1)
       [] key = "sign" -> sign(s1)
       [] key = "funded" -> funded(s1)

RunTask(key, st) ==
  IF st.hasError THEN st
  ELSE LET s1 == [st EXCEPT !.runningTasks = @ + 1]
       IN CASE key = "validate" -> validate(s1)
            [] key = "getFee" -> getFee(s1)
            [] key = "outputs" -> outputs(s1)
            [] key = "getUtxos" -> getUtxos(s1)
            [] key = "utxos" -> utxos(s1)
            [] key = "fund" -> fund(s1)
            [] key = "unlock" -> unlock(s1)
            [] key = "sign" -> sign(s1)
            [] key = "funded" -> funded(s1)

\* The while loop of processQueue
RECURSIVE RunReady(_)
RunReady(st) ==
  IF st.readyTasks = <<>> \/ st.thrown THEN st
  ELSE RunReady(RunTask(Head(st.readyTasks),
                        [st EXCEPT !.readyTasks = Tail(@)]))

ProcessQueue(st) ==
  IF st.readyTasks = <<>> /\ st.runningTasks = 0 THEN ReturnResult(st)
  ELSE RunReady(st)


(***************************************************************************)
(* Initial state and actions                                               *)
(***************************************************************************)
TaskSet == {Tasks[i] : i \in 1..Len(Tasks)}

NoFund == [inputs |-> <<>>, psbt |-> ""]

Init ==
  /\ args \in Requests
  /\ invoked = FALSE
  /\ done = {}
  /\ results = [getFee |-> 0, outputs |-> <<>>, getUtxos |-> <<>>, utxos |-> <<>>,
                fund |-> NoFund, sign |-> "", funded |-> ""]
  /\ runningTasks = 0
  /\ hasError = FALSE
  /\ remaining = [key \in TaskSet |-> Len(Deps(key))]
  /\ listeners = [key \in TaskSet |-> ListenersOf(key)]
  /\ readyTasks = <<>>
  /\ outcome = [state |-> "none", err |-> NoErr, value |-> ""]
  /\ calls = [fee |-> 0, parse |-> 0, enumerate |-> <<>>, ask |-> 0,
              fund |-> <<>>, sign |-> <<>>, unlock |-> <<>>]
  /\ pending = {}
  /\ prompt = [open |-> FALSE, input |-> <<>>, validated |-> FALSE,
               verdict |-> NoVerdict]
  /\ each = [length |-> 0, completed |-> 0, pending |-> {}, called |-> FALSE]
  /\ locks = {}
  /\ thrown = FALSE

Answered(call) == [Cur EXCEPT !.pending = @ \ {call}]

\* module.exports(args): asyncAuto enqueues the tasks without dependencies
Invoke ==
  /\ ~invoked
  /\ invoked' = TRUE
  /\ Apply(ProcessQueue([Cur EXCEPT !.readyTasks = <<"validate">>]))
  /\ UNCHANGED args

\* getChainFeeRate answers
FeeOk ==
  /\ "getFee" \in pending
  /\ \E rate \in FeeRates :
       Apply(TaskOk("getFee", [Answered("getFee") EXCEPT !.results.getFee = rate]))
  /\ UNCHANGED <<args, invoked>>

FeeFail ==
  /\ "getFee" \in pending
  /\ Apply(TaskFail("getFee", Err(503, "GetChainFeeRateError"), Answered("getFee")))
  /\ UNCHANGED <<args, invoked>>

\* getUtxos answers
EnumerateOk ==
  /\ "getUtxos" \in pending
  /\ \E coins \in SubSeqs(Wallet, 0, MaxCoins) :
       Apply(TaskOk("getUtxos",
                    [Answered("getUtxos") EXCEPT !.results.getUtxos = coins]))
  /\ UNCHANGED <<args, invoked>>

EnumerateFail ==
  /\ "getUtxos" \in pending
  /\ Apply(TaskFail("getUtxos", Err(503, "GetUtxosError"), Answered("getUtxos")))
  /\ UNCHANGED <<args, invoked>>

\* The prompt runs validate on a candidate selection of its choices
AskValidate ==
  /\ prompt.open
  /\ \E input \in SubSeqs(Choices(results.getUtxos), 0, Len(results.getUtxos)) :
       prompt' = [open |-> TRUE, input |-> input, validated |-> TRUE,
                  verdict |-> PromptValidate(input, results.getUtxos,
                                [i \in 1..Len(results.outputs) |->
                                  results.outputs[i].tokens])]
  /\ UNCHANGED <<args, invoked, done, results, runningTasks, hasError, remaining,
                 listeners, readyTasks, outcome, calls, pending, each, locks,
                 thrown>>

\* The prompt answers with the selection validate accepted
AskAnswer ==
  /\ prompt.open
  /\ prompt.validated
  /\ prompt.verdict.accept
  /\ Apply(TaskOk("utxos",
       [Answered("ask") EXCEPT
          !.results.utxos = [i \in 1..Len(prompt.input) |-> Str(prompt.input[i])],
          !.prompt.open = FALSE]))
  /\ UNCHANGED <<args, invoked>>

InWallet(input) ==
  \E k \in 1..Len(Wallet) :
    /\ Wallet[k].transaction_id = input.transaction_id
    /\ Wallet[k].transaction_vout = input.transaction_vout

LockId(i) == <<"l", "o", "c", "k">> \o Decimal(i)

\* The inputs lnd may fund the PSBT with: the given ones, or coins of its choice
FundableInputs(call) ==
  IF call.hasInputs
    THEN IF /\ \A i \in 1..Len(call.inputs) : InWallet(call.inputs[i])
            /\ \A i, j \in 1..Len(call.inputs) :
                 call.inputs[i] = call.inputs[j] => i = j
           THEN {call.inputs}
           ELSE {}
    ELSE {[i \in 1..Len(coins) |->
            [transaction_id |-> coins[i].transaction_id,
             transaction_vout |-> coins[i].transaction_vout]] :
          coins \in SubSeqs(Wallet, 1, MaxInputs)}

Outpoints(ins) ==
  {[transaction_id |-> ins[i].transaction_id,
    transaction_vout |-> ins[i].transaction_vout] : i \in 1..Len(ins)}

\* fundPsbt answers: the inputs are locked, each under its own lock id
FundOk ==
  /\ "fund" \in pending
  /\ \E ins \in FundableInputs(calls.fund[Len(calls.fund)]) :
       Apply(TaskOk("fund",
         [Answered("fund") EXCEPT
            !.results.fund =
              [inputs |-> [i \in 1..Len(ins) |->
                            [lock_id |-> LockId(i),
                             transaction_id |-> ins[i].transaction_id,
                             transaction_vout |-> ins[i].transaction_vout]],
               psbt |-> "70736274ff"],
            !.locks = @ \cup Outpoints(ins)]))
  /\ UNCHANGED <<args, invoked>>

FundFail ==
  /\ "fund" \in pending
  /\ Apply(TaskFail("fund", Err(503, "UnexpectedErrorFundingTransaction"),
                    Answered("fund")))
  /\ UNCHANGED <<args, invoked>>

\* One unlockUtxo answers: the iteratorCallback of asyncEach
UnlockOk ==
  /\ \E i \in each.pending :
       LET s1 == [Cur EXCEPT !.each.pending = @ \ {i},
                             !.each.completed = @ + 1,
                             !.locks = @ \ Outpoints(<<results.fund.inputs[i]>>)]
       IN IF ~s1.each.called /\ s1.each.completed = s1.each.length
            THEN Apply(TaskOk("unlock", [s1 EXCEPT !.each.called = TRUE]))
            ELSE Apply(s1)
  /\ UNCHANGED <<args, invoked>>

UnlockFail_ignored ==
  /\ \E i \in each.pending :
       LET s1 == [Cur EXCEPT !.each.pending = @ \ {i}]
       IN IF ~s1.each.called /\ s1.each.pending = {}
            THEN Apply(TaskOk("unlock", [s1 EXCEPT !.each.called = TRUE]))
            ELSE Apply(s1)
  /\ UNCHANGED <<args, invoked>>

UnlockFail ==
  /\ \E i \in each.pending :
       LET s1 == [Cur EXCEPT !.each.pending = @ \ {i}]
       IN IF ~s1.each.called
            THEN Apply(TaskFail("unlock", Err(503, "UnexpectedErrUnlockingUtxo"),
                                [s1 EXCEPT !.each.called = TRUE]))
            ELSE Apply(s1)
  /\ UNCHANGED <<args, invoked>>

\* signPsbt answers
SignOk ==
  /\ "sign" \in pending
  /\ \E tx \in SignedTxs :
       Apply(TaskOk("sign", [Answered("sign") EXCEPT !.results.sign = tx]))
  /\ UNCHANGED <<args, invoked>>

SignFail ==
  /\ "sign" \in pending
  /\ Apply(TaskFail("sign", Err(503, "UnexpectedErrorSigningPsbt"), Answered("sign")))
  /\ UNCHANGED <<args, invoked>>

Next ==
  \/ Invoke
  \/ FeeOk
  \/ FeeFail
  \/ EnumerateOk
  \/ EnumerateFail
  \/ AskValidate
  \/ AskAnswer
  \/ FundOk
  \/ FundFail
  \/ UnlockOk
  \/ UnlockFail
  \/ SignOk
  \/ SignFail

Spec == Init /\ [][Next]_vars


(***************************************************************************)
(* Properties                                                              *)
(***************************************************************************)
PreconditionMsgs ==
  {"ExpectedAuthenticatedLndToFundTransaction",
   "ExpectedAddressesToFundTransaction",
   "ExpectedAddressToSendFundsToInTransaction",
   "ExpectedAmountOfFundsToSendToAddress",
   "ExpectedFundPayingToAddressesNotPublicKeys",
   "ExpectedAskFunctionToFundTransaction",
   "ExpectedArrayOfUtxosToSpendToFundTransaction",
   "ExpectedOutpointFormattedUtxoToFundTransaction",
   "ExpectedEitherSelectUtxosOrExplicitUtxosNotBoth"}

FailedPrecondition ==
  /\ outcome.state = "rejected"
  /\ outcome.err.code = 400
  /\ outcome.err.msg \in PreconditionMsgs

NoExternalCall ==
  /\ calls = [fee |-> 0, parse |-> 0, enumerate |-> <<>>, ask |-> 0,
              fund |-> <<>>, sign |-> <<>>, unlock |-> <<>>]
  /\ pending = {}
  /\ ~prompt.open

OutpointOf(r) ==
  [transaction_id |-> r.transaction_id, transaction_vout |-> r.transaction_vout]

UnlockCallsFor(input) ==
  {k \in 1..Len(calls.unlock) : OutpointOf(calls.unlock[k]) = OutpointOf(input)}

\* C1: a dry run that ended in success has issued exactly one unlock call for
\* each input of the funded transaction, carrying that input's lock id and
\* outpoint, no unlock call for any other outpoint, and has invoked the signer.
C1_DryRunInvariant ==
  (args.is_dry_run /\ outcome.state = "resolved") =>
    /\ \A i \in 1..Len(results.fund.inputs) :
         /\ Cardinality(UnlockCallsFor(results.fund.inputs[i])) = 1
         /\ \A k \in UnlockCallsFor(results.fund.inputs[i]) :
              calls.unlock[k].id = results.fund.inputs[i].lock_id
    /\ \A k \in 1..Len(calls.unlock) :
         \E i \in 1..Len(results.fund.inputs) :
           OutpointOf(calls.unlock[k]) = OutpointOf(results.fund.inputs[i])
    /\ Len(calls.sign) = 1
    /\ "sign" \in done

C1_Witness ==
  /\ args.is_dry_run
  /\ outcome.state = "resolved"
  /\ Len(results.fund.inputs) = 2
  /\ Len(calls.unlock) = 2

\* C2: when is_dry_run is not set the unlock primitive is never called, and the
\* locks funding created are all still held, also after signing has failed.
C2_RealSpendKeepsLocks ==
  ~args.is_dry_run =>
    /\ calls.unlock = <<>>
    /\ each.pending = {}
    /\ "fund" \in done =>
         /\ locks = Outpoints(results.fund.inputs)
         /\ locks # {}

C2_Witness ==
  /\ ~args.is_dry_run
  /\ outcome.state = "rejected"
  /\ outcome.err.msg = "UnexpectedErrorSigningPsbt"
  /\ Cardinality(locks) = 2

\* C3: every output passed to the funding primitive has at least 293 tokens;
\* when some resolved output has fewer, the funding primitive, the signer and
\* unlock are never invoked; the dust failure is raised only when some output
\* has fewer than 293 tokens, so an output of exactly 293 does not raise it.
C3_DustFloorGuardsFunding ==
  /\ \A k \in 1..Len(calls.fund) :
       \A i \in 1..Len(calls.fund[k].outputs) :
         calls.fund[k].outputs[i].tokens >= 293
  /\ ("outputs" \in done
        /\ \E i \in 1..Len(results.outputs) : results.outputs[i].tokens < 293) =>
       /\ calls.fund = <<>>
       /\ calls.sign = <<>>
       /\ calls.unlock = <<>>
       /\ "fund" \notin pending
  /\ (outcome.state = "rejected"
        /\ outcome.err.msg = "ExpectedNonDustAmountValueForFundingAmount") =>
       \E i \in 1..Len(results.outputs) : results.outputs[i].tokens <= 292

C3_Witness ==
  /\ Len(results.outputs) = 2
  /\ results.outputs[1].tokens = 293
  /\ results.outputs[2].tokens = 292
  /\ outcome.state = "rejected"
  /\ outcome.err.msg = "ExpectedNonDustAmountValueForFundingAmount"

C3_WitnessFloor ==
  /\ Len(calls.fund) = 1
  /\ \E i \in 1..Len(calls.fund[1].outputs) : calls.fund[1].outputs[i].tokens = 293

ParsedWithDust ==
  /\ {"validate", "outputs"} \subseteq done
  /\ \E i \in 1..Len(results.outputs) : results.outputs[i].tokens < 293

C5_InvalidOutpointRejected ==
  (invoked /\ args.utxos.isArray
     /\ \E i \in 1..Len(args.utxos.items) : ~isOutpoint(args.utxos.items[i])) =>
    /\ FailedPrecondition
    /\ NoExternalCall

\* C6: a request whose addresses and amounts are sequences of different lengths
\* fails with a precondition error and no external capability is invoked.
C6_LengthMismatchRejected ==
  (invoked /\ args.addresses.isArray /\ args.amounts.isArray
     /\ Len(args.addresses.items) # Len(args.amounts.items)) =>
    /\ FailedPrecondition
    /\ NoExternalCall

C6_Witness ==
  /\ invoked
  /\ Len(args.addresses.items) = 2
  /\ Len(args.amounts.items) = 1
  /\ outcome.err.msg = "ExpectedAmountOfFundsToSendToAddress"

\* C7: a request with both a non-empty explicit coin list and the interactive
\* selection flag fails with a precondition error; no invocation both enumerates
\* or prompts and funds with the caller's explicit inputs.
C7_ExplicitXorInteractive ==
  /\ (invoked /\ args.utxos.isArray /\ Len(args.utxos.items) # 0
        /\ args.is_selecting_utxos) =>
       /\ FailedPrecondition
       /\ NoExternalCall
  /\ ~ /\ calls.enumerate # <<>> \/ calls.ask > 0
       /\ Len(args.utxos.items) # 0
       /\ \E k \in 1..Len(calls.fund) : calls.fund[k].hasInputs

C7_Witness ==
  /\ invoked
  /\ Len(args.utxos.items) # 0
  /\ args.is_selecting_utxos
  /\ outcome.err.msg = "ExpectedEitherSelectUtxosOrExplicitUtxosNotBoth"

\* C8: with an explicit fee rate fee estimation is never called, so its failure
\* cannot be the failure of the workflow.
C8_FeeEstimationOnlyWhenNeeded ==
  Truthy(args.fee_tokens_per_vbyte) =>
    /\ calls.fee = 0
    /\ outcome.err.msg # "GetChainFeeRateError"

\* C9: the fee rate passed to the funding primitive is the caller's fee rate
\* when the caller supplied a positive one, and otherwise the rate fee
\* estimation returned.
C9_FeeRatePassed ==
  \A k \in 1..Len(calls.fund) :
    /\ "getFee" \in done
    /\ calls.fund[k].fee_tokens_per_vbyte =
         IF args.fee_tokens_per_vbyte.t = "number" /\ args.fee_tokens_per_vbyte.n > 0
           THEN args.fee_tokens_per_vbyte.n
           ELSE results.getFee
    /\ results.getFee \in FeeRates

C9_Witness ==
  /\ Len(calls.fund) = 1
  /\ args.fee_tokens_per_vbyte = Num(7)
  /\ results.getFee = 3

C9_WitnessZero ==
  /\ Len(calls.fund) = 1
  /\ args.fee_tokens_per_vbyte = Num(0)

\* The tokens a display string of asBigUnit stands for
FromBigUnit(s) ==
  LET dot == CHOOSE p \in 1..Len(s) : s[p] = "."
  IN DigitsValue(SubSeq(s, 1, dot - 1)) * BigUnit
       + DigitsValue(SubSeq(s, dot + 1, Len(s)))

\* The shortfall a rejection message states, between ", need " and " more"
ShortfallOf(msg) ==
  LET at == CHOOSE p \in 1..Len(msg) : msg[p] = ", need "
  IN FromBigUnit(SubSeq(msg, at + 1, Len(msg) - 1))

RequestedTotal == sumOf([i \in 1..Len(results.outputs) |-> results.outputs[i].tokens])

SelectedTotal ==
  LET chosen == SelectSeq(results.getUtxos,
                          LAMBDA c : InSeq(asOutpoint(c), prompt.input))
  IN sumOf([i \in 1..Len(chosen) |-> chosen[i].tokens])

\* C10: the validation callback rejects an empty selection, accepts exactly when
\* the selection is non-empty and its coins sum to at least the requested total
\* T, and otherwise rejects with a message whose shortfall is T minus the
\* selected sum; this holds of every selection the prompt validates in turn.
C10_SelectionValidation ==
  prompt.validated =>
    /\ Len(prompt.input) = 0 => prompt.verdict = [accept |-> FALSE, msg |-> <<>>]
    /\ prompt.verdict.accept <=>
         (Len(prompt.input) > 0 /\ SelectedTotal >= RequestedTotal)
    /\ (Len(prompt.input) > 0 /\ SelectedTotal < RequestedTotal) =>
         /\ prompt.verdict.msg # <<>>
         /\ ShortfallOf(prompt.verdict.msg) = RequestedTotal - SelectedTotal

C10_Witness ==
  /\ prompt.validated
  /\ Len(prompt.input) = 2
  /\ RequestedTotal = 586
  /\ SelectedTotal = 585
  /\ ShortfallOf(prompt.verdict.msg) = 1

C10_WitnessExact ==
  /\ prompt.validated
  /\ prompt.verdict.accept
  /\ SelectedTotal = RequestedTotal


\* C11: the funding primitive is called with inputs undefined exactly when the
\* resolved coin list is empty, which is when no explicit coins were given and
\* no interactive selection was asked for; otherwise it is called with one
\* input record per resolved coin, in the same order, never with an empty list.
C11_InputsOmittedForAutoSelection ==
  \A k \in 1..Len(calls.fund) :
    LET call == calls.fund[k]
    IN /\ "utxos" \in done
       /\ ~call.hasInputs <=> Len(results.utxos) = 0
       /\ Len(results.utxos) = 0 <=>
            (Len(args.utxos.items) = 0 /\ ~args.is_selecting_utxos)
       /\ call.hasInputs =>
            /\ Len(call.inputs) = Len(results.utxos)
            /\ Len(call.inputs) > 0
            /\ \A i \in 1..Len(call.inputs) :
                 call.inputs[i].transaction_id
                   = SubSeq(results.utxos[i].s, 1, Len(call.inputs[i].transaction_id))

C11_Witness ==
  /\ Len(calls.fund) = 1
  /\ ~calls.fund[1].hasInputs
  /\ Len(results.utxos) = 0

C11_WitnessSelected ==
  /\ Len(calls.fund) = 1
  /\ calls.fund[1].hasInputs
  /\ Len(calls.fund[1].inputs) = 2
  /\ args.is_selecting_utxos


RECURSIVE PowerOfTen(_)
PowerOfTen(e) == IF e = 0 THEN 1 ELSE 10 * PowerOfTen(e - 1)

\* The hash and the index an outpoint string '<hash>:<index>' names
HashOf(s) == [p \in 1..HashLen |-> s[p]]
IndexOf(s) ==
  LET terms == [p \in 1..(Len(s) - HashLen - 1) |->
                 DigitVal(s[HashLen + 1 + p]) * PowerOfTen(Len(s) - HashLen - 1 - p)]
  IN sumOf(terms)

ValidCoins == {i \in 1..Len(results.utxos) : isOutpoint(results.utxos[i])}

\* C12: for every valid outpoint string of the resolved coin list the input
\* record given to the funding primitive has the 64 character hash as its
\* transaction_id and the integer value of the index, within 0..999999, as its
\* transaction_vout; distinct outpoints give distinct input records, and a
\* selected coin gives back the outpoint of the enumerated coin.
C12_OutpointParsing ==
  \A k \in 1..Len(calls.fund) :
    LET ins == calls.fund[k].inputs
    IN /\ \A i \in ValidCoins :
            /\ ins[i].transaction_id = HashOf(results.utxos[i].s)
            /\ ins[i].transaction_vout = IndexOf(results.utxos[i].s)
            /\ ins[i].transaction_vout \in 0..999999
       /\ \A i, j \in ValidCoins :
            (\/ HashOf(results.utxos[i].s) # HashOf(results.utxos[j].s)
             \/ IndexOf(results.utxos[i].s) # IndexOf(results.utxos[j].s))
              => ins[i] # ins[j]
       /\ args.is_selecting_utxos =>
            \A i \in 1..Len(ins) :
              \E c \in 1..Len(results.getUtxos) :
                /\ ins[i] = OutpointOf(results.getUtxos[c])
                /\ results.utxos[i].s = asOutpoint(results.getUtxos[c])

C12_Witness ==
  /\ Len(calls.fund) = 1
  /\ args.utxos.items = <<Str(HashB \o <<":", "0", "1", "2">>)>>
  /\ calls.fund[1].inputs = <<[transaction_id |-> HashB, transaction_vout |-> 12]>>

C12_WitnessSelected ==
  /\ Len(calls.fund) = 1
  /\ args.is_selecting_utxos
  /\ calls.fund[1].inputs =
       <<[transaction_id |-> HashA, transaction_vout |-> 0],
         [transaction_id |-> HashB, transaction_vout |-> 12]>>


EnumeratedNoCoins ==
  /\ args.is_selecting_utxos
  /\ "getUtxos" \in done
  /\ Len(results.getUtxos) = 0

\* C13 as stated: when is_selecting_utxos is set and enumeration returns no
\* coins, the workflow fails with WalletHasZeroConfirmedUtxos, the prompt is
\* never shown and the funding primitive, signer and unlock are never invoked.
C13_Original ==
  EnumeratedNoCoins =>
    /\ outcome.state = "rejected"
    /\ outcome.err = Err(400, "WalletHasZeroConfirmedUtxos")
    /\ calls.ask = 0
    /\ calls.fund = <<>>
    /\ calls.sign = <<>>
    /\ calls.unlock = <<>>

\* C13 amended: in that case the workflow fails, the prompt is never shown and
\* the funding primitive, signer and unlock are never invoked; the failure is
\* WalletHasZeroConfirmedUtxos unless fee estimation had failed before the
\* enumeration answered, and then it is the failure of fee estimation.
C13_EmptyWallet ==
  EnumeratedNoCoins =>
    /\ outcome.state = "rejected"
    /\ outcome.err \in {Err(400, "WalletHasZeroConfirmedUtxos"),
                        Err(503, "GetChainFeeRateError")}
    /\ ("getFee" \in pending \/ "getFee" \in done) =>
         outcome.err = Err(400, "WalletHasZeroConfirmedUtxos")
    /\ calls.ask = 0
    /\ ~prompt.open
    /\ calls.fund = <<>>
    /\ calls.sign = <<>>
    /\ calls.unlock = <<>>

C13_Witness ==
  /\ EnumeratedNoCoins
  /\ "getFee" \in pending
  /\ outcome.err = Err(400, "WalletHasZeroConfirmedUtxos")


NoEnumerationNoPrompt ==
  /\ calls.enumerate = <<>>
  /\ calls.ask = 0
  /\ ~prompt.open
  /\ "getUtxos" \notin pending

\* C14: coins are enumerated (once, with one confirmation) and the prompt shown
\* only when the interactive selection flag is set, and then the explicit coin
\* list is empty; with a non-empty explicit list the funder gets exactly that
\* list, in order, with no enumeration and no prompt; with neither the resolved
\* coin list is empty, with no enumeration and no prompt.
C14_CoinSourceBranches ==
  /\ ~NoEnumerationNoPrompt =>
       /\ args.is_selecting_utxos
       /\ Len(args.utxos.items) = 0
       /\ calls.enumerate \in {<<>>, <<1>>}
       /\ calls.ask <= 1
  /\ Len(args.utxos.items) # 0 =>
       /\ NoEnumerationNoPrompt
       /\ "utxos" \in done => results.utxos = args.utxos.items
       /\ \A k \in 1..Len(calls.fund) :
            /\ calls.fund[k].hasInputs
            /\ Len(calls.fund[k].inputs) = Len(args.utxos.items)
            /\ \A i \in 1..Len(args.utxos.items) :
                 isOutpoint(args.utxos.items[i]) =>
                   /\ calls.fund[k].inputs[i].transaction_id
                        = HashOf(args.utxos.items[i].s)
                   /\ calls.fund[k].inputs[i].transaction_vout
                        = IndexOf(args.utxos.items[i].s)
  /\ (Len(args.utxos.items) = 0 /\ ~args.is_selecting_utxos) =>
       /\ NoEnumerationNoPrompt
       /\ results.utxos = <<>>
       /\ \A k \in 1..Len(calls.fund) : ~calls.fund[k].hasInputs

C14_Witness ==
  /\ Len(args.utxos.items) = 1
  /\ Len(calls.fund) = 1
  /\ calls.fund[1].inputs = <<[transaction_id |-> HashA, transaction_vout |-> 0]>>
  /\ outcome.state = "resolved"

C14_WitnessPrompt ==
  /\ calls.enumerate = <<1>>
  /\ calls.ask = 1
  /\ Len(calls.fund) = 1


UnparsedAmounts ==
  {i \in 1..Len(args.amounts.items) : ~parseAmount(args.amounts.items[i]).ok}

\* C15: when parsing an amount fails the workflow fails with code 400 and the
\* message of the parser, and the selection prompt, the funding primitive, the
\* signer and unlock are never invoked.
C15_AmountParseFailure ==
  ("validate" \in done /\ UnparsedAmounts # {}) =>
    /\ outcome.state = "rejected"
    /\ outcome.err.code = 400
    /\ \E i \in UnparsedAmounts :
         outcome.err.msg = parseAmount(args.amounts.items[i]).message
    /\ "outputs" \notin done
    /\ calls.ask = 0
    /\ ~prompt.open
    /\ calls.fund = <<>>
    /\ calls.sign = <<>>
    /\ calls.unlock = <<>>

C15_Witness ==
  /\ "validate" \in done
  /\ args.amounts.items = <<"0.00000293", "x">>
  /\ args.is_selecting_utxos
  /\ calls.parse = 2
  /\ outcome.err = Err(400, "FailedToParseAmount")
  /\ "getFee" \in done


\* C16: whenever the workflow succeeds its result is the hex the signer returned
\* for the funded unsigned transaction, and validation, output building,
\* funding and signing have each completed successfully, exactly once.
C16_ResultAssembly ==
  outcome.state = "resolved" =>
    /\ outcome.value = results.sign
    /\ outcome.value \in SignedTxs
    /\ {"validate", "outputs", "fund", "sign", "funded"} \subseteq done
    /\ calls.parse = Len(args.addresses.items)
    /\ Len(results.outputs) = Len(args.addresses.items)
    /\ Len(calls.fund) = 1
    /\ calls.fund[1].outputs = results.outputs
    /\ calls.sign = <<results.fund.psbt>>
    /\ results.fund.psbt # ""
    /\ runningTasks = 0
    /\ pending = {}
    /\ ~hasError

C16_Witness ==
  /\ outcome.state = "resolved"
  /\ outcome.value = "0200bb"
  /\ Len(results.outputs) = 2


FundingFailed ==
  /\ calls.fund # <<>>
  /\ "fund" \notin pending
  /\ "fund" \notin done

\* C17: the funding primitive is invoked at most once and only after fee
\* resolution, output building and coin resolution have completed; the signer
\* and unlock are invoked only after funding has succeeded; when funding fails
\* the workflow fails with the funder's error and neither is ever invoked.
C17_DependencyOrdering ==
  /\ Len(calls.fund) <= 1
  /\ calls.fund # <<>> => {"validate", "getFee", "outputs", "utxos"} \subseteq done
  /\ (calls.sign # <<>> \/ calls.unlock # <<>> \/ "sign" \in pending
        \/ each.pending # {}) => "fund" \in done
  /\ "utxos" \in done => {"getUtxos", "outputs"} \subseteq done
  /\ FundingFailed =>
       /\ outcome.state = "rejected"
       /\ outcome.err = Err(503, "UnexpectedErrorFundingTransaction")
       /\ calls.sign = <<>>
       /\ calls.unlock = <<>>

C17_Witness ==
  /\ FundingFailed
  /\ args.is_dry_run
  /\ args.is_selecting_utxos
  /\ outcome.err = Err(503, "UnexpectedErrorFundingTransaction")

C17_WitnessOrdered ==
  /\ Len(calls.sign) = 1
  /\ Len(calls.unlock) = 2
  /\ "fund" \in done


\* The unlock calls that have answered with an error
FailedUnlocks == each.length - Cardinality(each.pending) - each.completed

\* C18: in a dry run, once an unlock call has failed the outcome is a failure,
\* also when signing succeeds; an unlock call has been issued for every funded
\* input; the coins unlocked stay unlocked, none is locked again; and success
\* is reported only after every unlock call has completed successfully.
C18_DryRunUnlockFailure ==
  args.is_dry_run =>
    /\ FailedUnlocks > 0 =>
         /\ outcome.state = "rejected"
         /\ Len(calls.unlock) = Len(results.fund.inputs)
         /\ \A i \in 1..Len(results.fund.inputs) :
              Cardinality(UnlockCallsFor(results.fund.inputs[i])) = 1
    /\ "fund" \in done =>
         /\ locks \subseteq Outpoints(results.fund.inputs)
         /\ Cardinality(locks) = Len(results.fund.inputs) - each.completed
    /\ outcome.state = "resolved" =>
         /\ each.pending = {}
         /\ FailedUnlocks = 0
         /\ each.completed = Len(results.fund.inputs)
         /\ locks = {}

C18_Witness ==
  /\ args.is_dry_run
  /\ FailedUnlocks = 1
  /\ each.completed = 1
  /\ "sign" \in done
  /\ "funded" \in done
  /\ outcome.state = "rejected"
  /\ outcome.err = Err(503, "UnexpectedErrUnlockingUtxo")
  /\ Cardinality(locks) = 1


\* C19: whenever funding has succeeded the signer has been invoked, exactly once,
\* in a dry run or not, whatever the unlock calls have done so far: it is
\* invoked while every unlock call is still outstanding.
C19_SignerIndependence ==
  /\ Len(calls.sign) <= 1
  /\ "fund" \in done =>
       /\ Len(calls.sign) = 1
       /\ calls.sign[1] = results.fund.psbt
  /\ ("sign" \in done \/ "sign" \in pending) => Len(calls.sign) = 1

C19_Witness ==
  /\ args.is_dry_run
  /\ "fund" \in done
  /\ "sign" \in pending
  /\ Len(calls.sign) = 1
  /\ each.pending = {1, 2}
  /\ each.completed = 0

C19_WitnessSignedFirst ==
  /\ args.is_dry_run
  /\ "sign" \in done
  /\ each.pending = {1, 2}


\* The external calls that can answer with a failure, and the error of each
AsyncFailures ==
  {[call |-> "getFee", err |-> Err(503, "GetChainFeeRateError")],
   [call |-> "getUtxos", err |-> Err(503, "GetUtxosError")],
   [call |-> "fund", err |-> Err(503, "UnexpectedErrorFundingTransaction")],
   [call |-> "sign", err |-> Err(503, "UnexpectedErrorSigningPsbt")]}

\* In this step the call answered and its task did not complete
Reported(call) ==
  /\ call \in pending
  /\ call \notin pending'
  /\ call \notin done'

\* In this step an unlock call answered with a failure
UnlockReported ==
  /\ each.pending' # each.pending
  /\ each.pending' \subseteq each.pending
  /\ each.completed' = each.completed

Rejected(o, err) == o = [state |-> "rejected", err |-> err, value |-> ""]

\* No call is outstanding and the prompt is closed
Quiescent ==
  /\ invoked
  /\ pending = {}
  /\ each.pending = {}
  /\ ~prompt.open

OutcomeWellFormed ==
  /\ outcome.state \in {"none", "rejected", "resolved"}
  /\ outcome.state = "rejected" <=> hasError
  /\ outcome.state = "rejected" => outcome.value = "" /\ outcome.err # NoErr
  /\ outcome.state = "resolved" =>
       /\ outcome.err = NoErr
       /\ outcome.value = results.funded
       /\ done = {Tasks[i] : i \in 1..Len(Tasks)}
  /\ (Quiescent /\ ~thrown) => outcome.state # "none"
  /\ thrown => outcome.state = "none"

OutcomeStep ==
  /\ outcome.state # "none" => outcome' = outcome
  /\ outcome.state = "none" =>
       /\ \A f \in AsyncFailures :
            Reported(f.call) => Rejected(outcome', f.err)
       /\ UnlockReported =>
            Rejected(outcome', Err(503, "UnexpectedErrUnlockingUtxo"))
       /\ (/\ outcome'.state = "rejected"
           /\ ~UnlockReported
           /\ \A f \in AsyncFailures : ~Reported(f.call)) =>
            outcome'.err.code = 400

C20_WitnessSignThenUnlock ==
  /\ Rejected(outcome, Err(503, "UnexpectedErrorSigningPsbt"))
  /\ FailedUnlocks > 0

\* An unlock call failed first and signing failed after it
C20_WitnessUnlockThenSign ==
  /\ Rejected(outcome, Err(503, "UnexpectedErrUnlockingUtxo"))
  /\ calls.sign # <<>>
  /\ "sign" \notin pending
  /\ "sign" \notin done

\* Fee estimation failed and the last running task completed after it
C20_WitnessLateCompletion ==
  /\ Rejected(outcome, Err(503, "GetChainFeeRateError"))
  /\ "getUtxos" \in done
  /\ runningTasks = 0


\* The output step failed: it runs in the turn in which validation completes
OutputsFailed ==
  /\ "validate" \in done
  /\ "outputs" \notin done

\* The step whose call was outstanding, for each call
InFlight ==
  {key \in TaskSet :
     \/ key \in pending
     \/ key = "utxos" /\ "ask" \in pending
     \/ key = "unlock" /\ each.pending # {}}

NoRetry ==
  /\ calls.fee <= 1
  /\ Len(calls.enumerate) <= 1
  /\ calls.ask <= 1
  /\ Len(calls.fund) <= 1
  /\ Len(calls.sign) <= 1
  /\ Len(calls.unlock) <= Len(results.fund.inputs)
  /\ \A i \in 1..Len(results.fund.inputs) :
       Cardinality(UnlockCallsFor(results.fund.inputs[i])) <= 1

SkippedAfterFailure ==
  /\ hasError => readyTasks = <<>> \/ \A i \in 1..Len(readyTasks) :
                                        readyTasks[i] \notin done
  /\ hasError /\ ~("validate" \in done) => NoExternalCall
  /\ OutputsFailed =>
       /\ hasError
       /\ calls.fee = 1
       /\ calls.enumerate = <<>>
       /\ calls.ask = 0
       /\ calls.fund = <<>>
       /\ calls.sign = <<>>
       /\ calls.unlock = <<>>

FailFastStep ==
  /\ hasError =>
       /\ hasError'
       /\ calls' = calls
       /\ outcome' = outcome
       /\ pending' \subseteq pending
       /\ each.pending' \subseteq each.pending
       /\ each.length' = each.length
       /\ prompt'.open => prompt.open
       /\ locks' \subseteq locks
       /\ (done' \ done) \subseteq InFlight
       /\ Cardinality(done' \ done) <= 1
  /\ (/\ ~hasError
      /\ hasError'
      /\ (UnlockReported \/ \E f \in AsyncFailures : Reported(f.call))) =>
       calls' = calls

\* C21: once a step has reported a failure no step is started and no external
\* capability is newly invoked; a step in flight may finish, and its result
\* starts no further step and leaves the outcome unchanged; no step is
\* invoked twice.
C21_FailFast == []NoRetry /\ []SkippedAfterFailure /\ [][FailFastStep]_vars

\* The output step failed in the turn it was started in, with fee estimation
\* already in flight and enumeration not yet started
C21_Witness ==
  /\ OutputsFailed
  /\ args.utxos.items = <<>>
  /\ "getFee" \in pending

\* Fee estimation failed; enumeration and the outputs completed after it, and
\* the prompt that depends on them was never opened
C21_WitnessInFlightFinished ==
  /\ Rejected(outcome, Err(503, "GetChainFeeRateError"))
  /\ args.utxos.items = <<>>
  /\ "getUtxos" \in done
  /\ "outputs" \in done
  /\ results.getUtxos # <<>>
  /\ calls.ask = 0
  /\ "utxos" \notin done

\* Signing succeeded after an unlock had failed: the result is never assembled
C21_WitnessSignedAfterFailure ==
  /\ Rejected(outcome, Err(503, "UnexpectedErrUnlockingUtxo"))
  /\ "sign" \in done
  /\ "funded" \notin done


\* The unlock calls that name the lock and the outpoint of the input
ReleaseRequests(input) ==
  {k \in UnlockCallsFor(input) : calls.unlock[k].id = input.lock_id}

SigningFailed ==
  /\ calls.sign # <<>>
  /\ "sign" \notin pending
  /\ "sign" \notin done

\* C22: in a dry run, once funding has succeeded an unlock call naming the
\* lock and the outpoint has been issued for every input of the funded
\* transaction, whether signing is outstanding, has succeeded or has failed:
\* every lock still held has had its release requested.
C22_DryRunReleaseRequested ==
  (args.is_dry_run /\ "fund" \in done) =>
    /\ \A i \in 1..Len(results.fund.inputs) :
         ReleaseRequests(results.fund.inputs[i]) # {}
    /\ \A o \in locks :
         \E k \in 1..Len(calls.unlock) : OutpointOf(calls.unlock[k]) = o
    /\ each.length = Len(results.fund.inputs)

\* Signing failed in a dry run before any unlock call had answered
C22_Witness ==
  /\ args.is_dry_run
  /\ Rejected(outcome, Err(503, "UnexpectedErrorSigningPsbt"))
  /\ SigningFailed
  /\ Len(results.fund.inputs) = 2
  /\ Len(calls.unlock) = 2
  /\ Cardinality(locks) = 2
  /\ each.pending = {1, 2}

\* The locks are released after signing has failed
C22_WitnessReleased ==
  /\ args.is_dry_run
  /\ SigningFailed
  /\ Len(results.fund.inputs) = 2
  /\ each.completed = 2
  /\ locks = {}


(***************************************************************************)
(* Termination.  Every call issued to lnd answers: the two answers of each *)
(* call are weakly fair.  The prompt answers when the user submits a       *)
(* selection its validate accepts, which nothing in the code brings about: *)
(* that the prompt answers is a hypothesis of the property, not fairness.  *)
(***************************************************************************)
FairSpec ==
  /\ Spec
  /\ WF_vars(FeeOk \/ FeeFail)
  /\ WF_vars(EnumerateOk \/ EnumerateFail)
  /\ WF_vars(FundOk \/ FundFail)
  /\ WF_vars(UnlockOk \/ UnlockFail)
  /\ WF_vars(SignOk \/ SignFail)

Delivered == outcome.state # "none"

PromptAnswers == <>[](~prompt.open)

ValidationFailsAtOnce ==
  (invoked /\ ValidateError(args) # NoErr) =>
    /\ outcome.state = "rejected"
    /\ outcome.err = ValidateError(args)
    /\ NoExternalCall

\* C23: when every call that is issued answers, every invocation delivers its
\* outcome, and a request that fails validation has its outcome as soon as it
\* is invoked, with no external call issued.
C23_Termination ==
  /\ PromptAnswers => (invoked ~> Delivered)
  /\ []ValidationFailsAtOnce

\* C23 but for the exception: when every call that is issued answers, every
\* invocation delivers its outcome or its funding step has thrown.
C23_TerminationUnlessThrown ==
  /\ PromptAnswers => (invoked ~> (Delivered \/ thrown))
  /\ []ValidationFailsAtOnce

\* Every call has answered, the funding step has thrown on a coin entry that is
\* not a string, and no outcome is or will be delivered
C23_Stuck ==
  /\ thrown
  /\ Quiescent
  /\ ~Delivered
  /\ "getFee" \in done
  /\ args.utxos.items = <<Num(0)>>

====
